---- MODULE Spec2Model ----
(***************************************************************************)
(* Riddle Maker: the action handlers of src/actions/index.ts over the two  *)
(* tables of db/tables.ts.  A state is the content of the two tables, the  *)
(* id generator, the wall clock and the outcome of the last request.  One  *)
(* action per handler; a handler runs to completion in one step (requests  *)
(* do not interleave in Spec).  SpecSteps and SpecConc run the writing     *)
(* handlers one store statement at a time.                                 *)
(***************************************************************************)
EXTENDS Integers, Sequences, FiniteSets, TLC

VARIABLES
    RiddleCollections,  \* rows of table RiddleCollections
    Riddles,            \* rows of table Riddles
    uuid,               \* number of ids crypto.randomUUID() has handed out
    inserted,           \* number of rows ever inserted, per table
    clock,              \* the wall clock read by new Date()
    foreignKeys,        \* whether the table engine enforces `references`
    last,               \* outcome of the last request: op, user, code, data, stmts
    inflight            \* the handlers that await a statement, by slot

vars == <<RiddleCollections, Riddles, uuid, inserted, clock, foreignKeys, last,
          inflight>>
store == <<RiddleCollections, Riddles>>

(***************************************************************************)
(* Bounds of the model.                                                    *)
(***************************************************************************)
MaxCollections == 2 \* collections inserted in one behaviour
MaxRiddles == 1     \* riddles inserted in one behaviour of Spec
MaxFieldRiddles == 2 \* riddles inserted in one behaviour of SpecFields, SpecList
MaxListCollections == 1 \* collections inserted in one behaviour of SpecList
MaxTime == 1        \* last value of the wall clock
MaxPage == 2        \* largest page number requested
MaxPageSize == 2    \* largest pageSize requested
MaxRequests == 2    \* handlers in flight at a time in SpecConc

(***************************************************************************)
(* Values.                                                                 *)
(***************************************************************************)
Users == {"u1", "u2"}
NoUser == "<anonymous>"             \* context.locals.user is undefined
Contexts == Users \cup {NoUser}
Null == "<null>"                    \* SQL NULL / JS null
Empty == [f \in {} |-> 0]           \* the input object with no optional key

\* (variant) an id generator that repeats itself
randomUUIDFixed(n) == "id1"
\* crypto.randomUUID(): the n-th id handed out; never empty, never repeated
randomUUID(n) == "id" \o ToString(n)
AllIds == {randomUUID(n) : n \in 1..(MaxCollections + MaxRiddles)}

\* input.f, or d when the key is absent (undefined)
Get(input, f, d) == IF f \in DOMAIN input THEN input[f] ELSE d
\* JS truthiness of an optional string: undefined, null and "" are falsy
TruthyStr(input, f) == f \in DOMAIN input /\ input[f] # Null /\ input[f] # ""
\* JS truthiness of an optional boolean
TruthyBool(input, f) == f \in DOMAIN input /\ input[f]
\* the keys of input among fs: the `typeof input.f !== "undefined"` copies
Supplied(input, fs) == [f \in (DOMAIN input) \cap fs |-> input[f]]
\* UPDATE ... SET data on one row
SetRow(row, data) == [k \in DOMAIN row |-> IF k \in DOMAIN data THEN data[k] ELSE row[k]]

\* (variant) no check of the caller
requireUserAlways(ctx) == TRUE
\* whether context.locals.user is set; the handler throws UNAUTHORIZED if not
requireUser(ctx) == ctx # NoUser

\* one statement sent to the table engine, with the number of rows it
\* returned (select) or touched (insert, update, delete)
Stmt(kind, table, rows) == [stmt |-> kind, table |-> table, rows |-> rows]

Response(op, ctx, code, data, stmts) ==
    [op |-> op, user |-> ctx, code |-> code, data |-> data, stmts |-> stmts]

\* a handler that throws: nothing but the response changes
Throw(op, ctx, code, stmts) ==
    /\ last' = Response(op, ctx, code, <<>>, stmts)
    /\ UNCHANGED <<RiddleCollections, Riddles, uuid, inserted, clock, foreignKeys, inflight>>

(***************************************************************************)
(* Store statements.                                                       *)
(***************************************************************************)
\* (variant) a lookup by id that forgets the owner
SelectAnyOwner(rows, id, uid) == {r \in rows : r.id = id}
\* SELECT ... WHERE id = :id AND userId = :uid
SelectOwned(rows, id, uid) == {r \in rows : r.id = id /\ r.userId = uid}
\* UPDATE ... SET data WHERE ..., matched being the rows the where clause selects
Update(rows, matched, data) == {IF r \in matched THEN SetRow(r, data) ELSE r : r \in rows}
\* DELETE ... WHERE id = :id AND userId = :uid
DeleteOwned(rows, id, uid) == {r \in rows : ~(r.id = id /\ r.userId = uid)}
\* the foreign key Riddles.collectionId -> RiddleCollections.id, when enforced
ForeignKeyOk(colls, collectionId) ==
    foreignKeys => (collectionId = Null \/ \E c \in colls : c.id = collectionId)

\* (variant) the caller's defaults are never cleared
ClearsDefaultNever(input) == FALSE
\* `if (input.isDefault)`: whether the handler clears the caller's defaults
ClearsDefault(input) == TruthyBool(input, "isDefault")
\* (variant) a clear-default statement without its where clause
DefaultScopeAll(c, uid) == TRUE
\* the rows the clear-default statement touches
DefaultScope(c, uid) == c.userId = uid
\* (variant) a lookup whenever the key is supplied, null included
ChecksCollectionIfSupplied(input) == "collectionId" \in DOMAIN input
\* `if (input.collectionId)`: whether the handler looks the collection up
ChecksCollection(input) == TruthyStr(input, "collectionId")
\* (variant) a detach that compares the riddle's own id
DetachScopeById(r, id, uid) == r.id = id /\ r.userId = uid
\* the rows the detach statement of deleteRiddleCollection touches
DetachScope(r, id, uid) == r.collectionId = id /\ r.userId = uid

CollectionFields == {"name", "description", "icon", "isDefault"}
RiddleFields == {"question", "answer", "hint", "difficulty", "category",
                 "language", "collectionId", "isFavorite", "isPublic"}

\* (variant) updateData without the isDefault copy
CollectionUpdateDataNoDefault(input, now) ==
    Supplied(input, CollectionFields \ {"isDefault"}) @@ [updatedAt |-> now]
\* updateData of updateRiddleCollection
CollectionUpdateData(input, now) ==
    Supplied(input, CollectionFields) @@ [updatedAt |-> now]
\* (variant) updateData that defaults isFavorite as the insert does
RiddleUpdateDataFavDefault(input, now) ==
    Supplied(input, RiddleFields \ {"isFavorite"})
    @@ [isFavorite |-> Get(input, "isFavorite", FALSE), updatedAt |-> now]
\* updateData of updateRiddle
RiddleUpdateData(input, now) ==
    Supplied(input, RiddleFields) @@ [updatedAt |-> now]

(***************************************************************************)
(* Collection handlers.                                                    *)
(***************************************************************************)
createRiddleCollection(ctx, input) ==
    IF ~requireUser(ctx)
    THEN Throw("createRiddleCollection", ctx, "UNAUTHORIZED", <<>>)
    ELSE LET now == clock
             mine == {c \in RiddleCollections : DefaultScope(c, ctx)}
             cleared == IF ClearsDefault(input)
                        THEN Update(RiddleCollections, mine,
                                    [isDefault |-> FALSE, updatedAt |-> now])
                        ELSE RiddleCollections
             collection == [id |-> randomUUID(uuid + 1),
                            userId |-> ctx,
                            name |-> input.name,
                            description |-> Get(input, "description", Null),
                            icon |-> Get(input, "icon", Null),
                            isDefault |-> Get(input, "isDefault", FALSE),
                            createdAt |-> now,
                            updatedAt |-> now]
             stmts == (IF ClearsDefault(input)
                       THEN <<Stmt("update", "RiddleCollections", Cardinality(mine))>>
                       ELSE <<>>)
                      \o <<Stmt("insert", "RiddleCollections", 1)>>
         IN  /\ RiddleCollections' = cleared \cup {collection}
             /\ uuid' = uuid + 1
             /\ inserted' = [inserted EXCEPT !.collections = @ + 1]
             /\ last' = Response("createRiddleCollection", ctx, "OK",
                                 <<collection>>, stmts)
             /\ UNCHANGED <<Riddles, clock, foreignKeys, inflight>>

updateRiddleCollection(ctx, input) ==
    IF ~requireUser(ctx)
    THEN Throw("updateRiddleCollection", ctx, "UNAUTHORIZED", <<>>)
    ELSE IF SelectOwned(RiddleCollections, input.id, ctx) = {}
    THEN Throw("updateRiddleCollection", ctx, "NOT_FOUND",
               <<Stmt("select", "RiddleCollections", 0)>>)
    ELSE LET now == clock
             mine == {c \in RiddleCollections : DefaultScope(c, ctx)}
             cleared == IF ClearsDefault(input)
                        THEN Update(RiddleCollections, mine,
                                    [isDefault |-> FALSE, updatedAt |-> now])
                        ELSE RiddleCollections
             updated == Update(cleared, SelectOwned(cleared, input.id, ctx),
                               CollectionUpdateData(input, now))
             stmts == <<Stmt("select", "RiddleCollections", 1)>>
                      \o (IF ClearsDefault(input)
                          THEN <<Stmt("update", "RiddleCollections", Cardinality(mine))>>
                          ELSE <<>>)
                      \o <<Stmt("update", "RiddleCollections", 1)>>
         IN  /\ RiddleCollections' = updated
             /\ last' = Response("updateRiddleCollection", ctx, "OK",
                                 <<CHOOSE c \in updated : c.id = input.id>>, stmts)
             /\ UNCHANGED <<Riddles, uuid, inserted, clock, foreignKeys, inflight>>

deleteRiddleCollection(ctx, input) ==
    IF ~requireUser(ctx)
    THEN Throw("deleteRiddleCollection", ctx, "UNAUTHORIZED", <<>>)
    ELSE IF SelectOwned(RiddleCollections, input.id, ctx) = {}
    THEN Throw("deleteRiddleCollection", ctx, "NOT_FOUND",
               <<Stmt("select", "RiddleCollections", 0)>>)
    ELSE LET now == clock
             members == {r \in Riddles : DetachScope(r, input.id, ctx)}
             detached == Update(Riddles, members,
                                [collectionId |-> Null, updatedAt |-> now])
             \* the delete statement is refused while a riddle references the row
             refused == foreignKeys /\ \E r \in detached : r.collectionId = input.id
             stmts == <<Stmt("select", "RiddleCollections", 1),
                        Stmt("update", "Riddles", Cardinality(members)),
                        Stmt("delete", "RiddleCollections", IF refused THEN 0 ELSE 1)>>
         IN  /\ Riddles' = detached
             /\ RiddleCollections' =
                    IF refused THEN RiddleCollections
                    ELSE DeleteOwned(RiddleCollections, input.id, ctx)
             /\ last' = Response("deleteRiddleCollection", ctx,
                                 IF refused THEN "INTERNAL_SERVER_ERROR" ELSE "OK",
                                 <<>>, stmts)
             /\ UNCHANGED <<uuid, inserted, clock, foreignKeys, inflight>>

(***************************************************************************)
(* Riddle handlers.                                                        *)
(***************************************************************************)
createRiddle(ctx, input) ==
    IF ~requireUser(ctx)
    THEN Throw("createRiddle", ctx, "UNAUTHORIZED", <<>>)
    ELSE IF ChecksCollection(input)
            /\ SelectOwned(RiddleCollections, input.collectionId, ctx) = {}
    THEN Throw("createRiddle", ctx, "FORBIDDEN",
               <<Stmt("select", "RiddleCollections", 0)>>)
    ELSE LET now == clock
             riddle == [id |-> randomUUID(uuid + 1),
                        userId |-> ctx,
                        collectionId |-> Get(input, "collectionId", Null),
                        question |-> input.question,
                        answer |-> input.answer,
                        hint |-> Get(input, "hint", Null),
                        difficulty |-> Get(input, "difficulty", Null),
                        category |-> Get(input, "category", Null),
                        language |-> Get(input, "language", Null),
                        isFavorite |-> Get(input, "isFavorite", FALSE),
                        isPublic |-> Get(input, "isPublic", FALSE),
                        createdAt |-> now,
                        updatedAt |-> now]
             checked == IF ChecksCollection(input)
                        THEN <<Stmt("select", "RiddleCollections", 1)>> ELSE <<>>
         IN  IF ~ForeignKeyOk(RiddleCollections, riddle.collectionId)
             THEN Throw("createRiddle", ctx, "INTERNAL_SERVER_ERROR",
                        checked \o <<Stmt("insert", "Riddles", 0)>>)
             ELSE /\ Riddles' = Riddles \cup {riddle}
                  /\ uuid' = uuid + 1
                  /\ inserted' = [inserted EXCEPT !.riddles = @ + 1]
                  /\ last' = Response("createRiddle", ctx, "OK", <<riddle>>,
                                      checked \o <<Stmt("insert", "Riddles", 1)>>)
                  /\ UNCHANGED <<RiddleCollections, clock, foreignKeys, inflight>>

updateRiddle(ctx, input) ==
    IF ~requireUser(ctx)
    THEN Throw("updateRiddle", ctx, "UNAUTHORIZED", <<>>)
    ELSE IF SelectOwned(Riddles, input.id, ctx) = {}
    THEN Throw("updateRiddle", ctx, "NOT_FOUND", <<Stmt("select", "Riddles", 0)>>)
    ELSE IF ChecksCollection(input)
            /\ SelectOwned(RiddleCollections, input.collectionId, ctx) = {}
    THEN Throw("updateRiddle", ctx, "FORBIDDEN",
               <<Stmt("select", "Riddles", 1), Stmt("select", "RiddleCollections", 0)>>)
    ELSE LET updateData == RiddleUpdateData(input, clock)
             updated == Update(Riddles, SelectOwned(Riddles, input.id, ctx),
                               updateData)
             checked == <<Stmt("select", "Riddles", 1)>>
                        \o (IF ChecksCollection(input)
                            THEN <<Stmt("select", "RiddleCollections", 1)>> ELSE <<>>)
         IN  IF "collectionId" \in DOMAIN updateData
                /\ ~ForeignKeyOk(RiddleCollections, updateData.collectionId)
             THEN Throw("updateRiddle", ctx, "INTERNAL_SERVER_ERROR",
                        checked \o <<Stmt("update", "Riddles", 0)>>)
             ELSE /\ Riddles' = updated
                  /\ last' = Response("updateRiddle", ctx, "OK",
                                      <<CHOOSE r \in updated : r.id = input.id>>,
                                      checked \o <<Stmt("update", "Riddles", 1)>>)
                  /\ UNCHANGED <<RiddleCollections, uuid, inserted, clock, foreignKeys, inflight>>

deleteRiddle(ctx, input) ==
    IF ~requireUser(ctx)
    THEN Throw("deleteRiddle", ctx, "UNAUTHORIZED", <<>>)
    ELSE IF SelectOwned(Riddles, input.id, ctx) = {}
    THEN Throw("deleteRiddle", ctx, "NOT_FOUND", <<Stmt("select", "Riddles", 0)>>)
    ELSE /\ Riddles' = DeleteOwned(Riddles, input.id, ctx)
         /\ last' = Response("deleteRiddle", ctx, "OK", <<>>,
                             <<Stmt("select", "Riddles", 1), Stmt("delete", "Riddles", 1)>>)
         /\ UNCHANGED <<RiddleCollections, uuid, inserted, clock, foreignKeys, inflight>>

(***************************************************************************)
(* Listings.  The queries carry no ORDER BY: the engine returns the        *)
(* matching rows in an order of its choice, then LIMIT/OFFSET cut a page.  *)
(***************************************************************************)
\* the orders in which the engine may return the rows of S
Orders(S) == {o \in [1..Cardinality(S) -> S] : \A i, j \in DOMAIN o : o[i] = o[j] => i = j}
Min(a, b) == IF a < b THEN a ELSE b
\* .limit(pageSize).offset((page - 1) * pageSize)
LimitOffset(rows, page, pageSize) ==
    SubSeq(rows, (page - 1) * pageSize + 1, Min(page * pageSize, Len(rows)))

\* the where clause of listMyRiddles
RiddleFilter(r, uid, input) ==
    /\ r.userId = uid
    /\ TruthyStr(input, "collectionId") => r.collectionId = input.collectionId
    /\ TruthyBool(input, "favoritesOnly") => r.isFavorite = TRUE
    /\ TruthyStr(input, "difficulty") => r.difficulty = input.difficulty
    /\ TruthyStr(input, "category") => r.category = input.category

listMyCollections(ctx, input) ==
    IF ~requireUser(ctx)
    THEN Throw("listMyCollections", ctx, "UNAUTHORIZED", <<>>)
    ELSE \E rows \in Orders({c \in RiddleCollections : c.userId = ctx}) :
            /\ last' = Response("listMyCollections", ctx, "OK",
                                LimitOffset(rows, input.page, input.pageSize),
                                <<Stmt("select", "RiddleCollections",
                                       Len(LimitOffset(rows, input.page, input.pageSize)))>>)
            /\ UNCHANGED <<RiddleCollections, Riddles, uuid, inserted, clock, foreignKeys, inflight>>

listMyRiddles(ctx, input) ==
    IF ~requireUser(ctx)
    THEN Throw("listMyRiddles", ctx, "UNAUTHORIZED", <<>>)
    ELSE \E rows \in Orders({r \in Riddles : RiddleFilter(r, ctx, input)}) :
            /\ last' = Response("listMyRiddles", ctx, "OK",
                                LimitOffset(rows, input.page, input.pageSize),
                                <<Stmt("select", "Riddles",
                                       Len(LimitOffset(rows, input.page, input.pageSize)))>>)
            /\ UNCHANGED <<RiddleCollections, Riddles, uuid, inserted, clock, foreignKeys, inflight>>

\* the wall clock advances between requests
Tick ==
    /\ clock < MaxTime
    /\ clock' = clock + 1
    /\ UNCHANGED <<RiddleCollections, Riddles, uuid, inserted, foreignKeys, last,
                   inflight>>

(***************************************************************************)
(* The writing handlers, one store statement at a time.  A handler is an   *)
(* async function: it runs to its next `await db...`, the statement takes  *)
(* effect in one step, and the handler resumes with the result.  A request *)
(* in flight is its handler's frame: op, user, input, the statement it     *)
(* awaits (pc), the value of `now`, and the statements it has sent.  The   *)
(* call of a handler and its first statement are one step: before that     *)
(* statement the handler has touched nothing but its own frame.            *)
(***************************************************************************)
Slots == 1..MaxRequests
Request(op, ctx, input, pc, now, before) ==
    [op |-> op, user |-> ctx, input |-> input, pc |-> pc, now |-> now,
     stmts |-> <<>>, before |-> before]
\* the requests whose handler is still running
Live == {s \in DOMAIN inflight : inflight[s].pc # "stopped"}
Awaits(req, op, pc) == req.op = op /\ req.pc = pc
\* the frames that stay when the handler of req takes a step in slot s: the
\* running ones, and the frame of a stopped request that req repeats
Others(s, req) ==
    {t \in DOMAIN inflight \ {s} :
        \/ inflight[t].pc # "stopped"
        \/ /\ inflight[t].op = req.op
           /\ inflight[t].user = req.user
           /\ inflight[t].input = req.input}

\* the first statement a handler sends
FirstStatement(op, input) ==
    CASE op = "createRiddleCollection" ->
            IF ClearsDefault(input) THEN "clear" ELSE "insert"
      [] op = "createRiddle" ->
            IF ChecksCollection(input) THEN "check" ELSE "insert"
      [] OTHER -> "select"

\* (variant) deleteRiddleCollection deleting the row before the detach
DeleteStatementsDeleteFirst == <<"delete", "detach">>
\* the two writes of deleteRiddleCollection, in the order of the code
DeleteStatements == <<"detach", "delete">>

\* the handler of req, in slot s, resumes after stmt, reads its clock if the
\* code does so here, and awaits statement pc
Await(s, req, pc, now, stmt) ==
    /\ inflight' = [t \in Others(s, req) \cup {s} |->
                       IF t = s
                       THEN [req EXCEPT !.pc = pc, !.now = now,
                                        !.stmts = Append(@, stmt)]
                       ELSE inflight[t]]
    /\ UNCHANGED last
\* the handler of req, in slot s, returns or throws after stmt
Finish(s, req, code, data, stmt) ==
    /\ last' = Response(req.op, req.user, code, data, Append(req.stmts, stmt))
    /\ inflight' = [t \in Live \ {s} |-> inflight[t]]

\* createRiddleCollection, lines 32-37
createRiddleCollectionClear(s, req) ==
    /\ Awaits(req, "createRiddleCollection", "clear")
    /\ LET mine == {c \in RiddleCollections : DefaultScope(c, req.user)}
       IN  /\ RiddleCollections' =
                  Update(RiddleCollections, mine,
                         [isDefault |-> FALSE, updatedAt |-> req.now])
           /\ Await(s, req, "insert", req.now,
                    Stmt("update", "RiddleCollections", Cardinality(mine)))
    /\ UNCHANGED <<Riddles, uuid, inserted, clock, foreignKeys>>

\* createRiddleCollection, lines 39-56
createRiddleCollectionInsert(s, req) ==
    /\ Awaits(req, "createRiddleCollection", "insert")
    /\ LET collection == [id |-> randomUUID(uuid + 1),
                          userId |-> req.user,
                          name |-> req.input.name,
                          description |-> Get(req.input, "description", Null),
                          icon |-> Get(req.input, "icon", Null),
                          isDefault |-> Get(req.input, "isDefault", FALSE),
                          createdAt |-> req.now,
                          updatedAt |-> req.now]
       IN  /\ RiddleCollections' = RiddleCollections \cup {collection}
           /\ uuid' = uuid + 1
           /\ inserted' = [inserted EXCEPT !.collections = @ + 1]
           /\ Finish(s, req, "OK", <<collection>>, Stmt("insert", "RiddleCollections", 1))
    /\ UNCHANGED <<Riddles, clock, foreignKeys>>

\* updateRiddleCollection, lines 71-88
updateRiddleCollectionSelect(s, req) ==
    /\ Awaits(req, "updateRiddleCollection", "select")
    /\ IF SelectOwned(RiddleCollections, req.input.id, req.user) = {}
           THEN Finish(s, req, "NOT_FOUND", <<>>, Stmt("select", "RiddleCollections", 0))
           ELSE Await(s, req, IF ClearsDefault(req.input) THEN "clear" ELSE "update",
                      clock, Stmt("select", "RiddleCollections", 1))
    /\ UNCHANGED <<RiddleCollections, Riddles, uuid, inserted, clock, foreignKeys>>

\* updateRiddleCollection, lines 90-95
updateRiddleCollectionClear(s, req) ==
    /\ Awaits(req, "updateRiddleCollection", "clear")
    /\ LET mine == {c \in RiddleCollections : DefaultScope(c, req.user)}
       IN  /\ RiddleCollections' =
                  Update(RiddleCollections, mine,
                         [isDefault |-> FALSE, updatedAt |-> req.now])
           /\ Await(s, req, "update", req.now,
                    Stmt("update", "RiddleCollections", Cardinality(mine)))
    /\ UNCHANGED <<Riddles, uuid, inserted, clock, foreignKeys>>

\* updateRiddleCollection, lines 97-122; `collection` is undefined when the
\* row has gone since the select
updateRiddleCollectionUpdate(s, req) ==
    /\ Awaits(req, "updateRiddleCollection", "update")
    /\ LET matched == SelectOwned(RiddleCollections, req.input.id, req.user)
           updated == Update(RiddleCollections, matched,
                             CollectionUpdateData(req.input, req.now))
       IN  /\ RiddleCollections' = updated
           /\ Finish(s, req, "OK",
                     IF matched = {} THEN <<>>
                     ELSE <<CHOOSE c \in updated : c.id = req.input.id>>,
                     Stmt("update", "RiddleCollections", Cardinality(matched)))
    /\ UNCHANGED <<Riddles, uuid, inserted, clock, foreignKeys>>

\* deleteRiddleCollection, lines 133-150
deleteRiddleCollectionSelect(s, req) ==
    /\ Awaits(req, "deleteRiddleCollection", "select")
    /\ IF SelectOwned(RiddleCollections, req.input.id, req.user) = {}
           THEN Finish(s, req, "NOT_FOUND", <<>>, Stmt("select", "RiddleCollections", 0))
           ELSE Await(s, req, DeleteStatements[1], clock,
                      Stmt("select", "RiddleCollections", 1))
    /\ UNCHANGED <<RiddleCollections, Riddles, uuid, inserted, clock, foreignKeys>>

\* (variant) a detach that leaves collectionId as it is
DetachDataTouch(now) == [updatedAt |-> now]
\* .set({ collectionId: null, updatedAt: now })
DetachData(now) == [collectionId |-> Null, updatedAt |-> now]

\* after a write of deleteRiddleCollection: on to the second write, or return
DeleteProceeds(s, req, stmt) ==
    IF req.pc = DeleteStatements[1]
    THEN Await(s, req, DeleteStatements[2], req.now, stmt)
    ELSE Finish(s, req, "OK", <<>>, stmt)

\* deleteRiddleCollection, lines 152-160
deleteRiddleCollectionDetach(s, req) ==
    /\ Awaits(req, "deleteRiddleCollection", "detach")
    /\ LET members == {r \in Riddles : DetachScope(r, req.input.id, req.user)}
       IN  /\ Riddles' = Update(Riddles, members, DetachData(req.now))
           /\ DeleteProceeds(s, req, Stmt("update", "Riddles", Cardinality(members)))
    /\ UNCHANGED <<RiddleCollections, uuid, inserted, clock, foreignKeys>>

\* deleteRiddleCollection, lines 162-171; the statement is refused while a
\* riddle references the row and `references` is enforced
deleteRiddleCollectionDelete(s, req) ==
    /\ Awaits(req, "deleteRiddleCollection", "delete")
    /\ LET refused == foreignKeys /\ \E r \in Riddles : r.collectionId = req.input.id
           matched == SelectOwned(RiddleCollections, req.input.id, req.user)
       IN  IF refused
           THEN /\ Finish(s, req, "INTERNAL_SERVER_ERROR", <<>>,
                          Stmt("delete", "RiddleCollections", 0))
                /\ UNCHANGED RiddleCollections
           ELSE /\ RiddleCollections' =
                       DeleteOwned(RiddleCollections, req.input.id, req.user)
                /\ DeleteProceeds(s, req, Stmt("delete", "RiddleCollections",
                                          Cardinality(matched)))
    /\ UNCHANGED <<Riddles, uuid, inserted, clock, foreignKeys>>

\* the process running deleteRiddleCollection stops between its two writes:
\* the handler never resumes, no response is sent
Stop(s) ==
    /\ s \in DOMAIN inflight
    /\ Awaits(inflight[s], "deleteRiddleCollection", DeleteStatements[2])
    /\ DOMAIN inflight = Live
    /\ inflight' = [inflight EXCEPT ![s].pc = "stopped"]
    /\ UNCHANGED <<RiddleCollections, Riddles, uuid, inserted, clock, foreignKeys, last>>

\* createRiddle, lines 190-209
createRiddleCheck(s, req) ==
    /\ Awaits(req, "createRiddle", "check")
    /\ IF SelectOwned(RiddleCollections, req.input.collectionId, req.user) = {}
           THEN Finish(s, req, "FORBIDDEN", <<>>, Stmt("select", "RiddleCollections", 0))
           ELSE Await(s, req, "insert", clock, Stmt("select", "RiddleCollections", 1))
    /\ UNCHANGED <<RiddleCollections, Riddles, uuid, inserted, clock, foreignKeys>>

\* createRiddle, lines 211-233
createRiddleInsert(s, req) ==
    /\ Awaits(req, "createRiddle", "insert")
    /\ LET riddle == [id |-> randomUUID(uuid + 1),
                      userId |-> req.user,
                      collectionId |-> Get(req.input, "collectionId", Null),
                      question |-> req.input.question,
                      answer |-> req.input.answer,
                      hint |-> Get(req.input, "hint", Null),
                      difficulty |-> Get(req.input, "difficulty", Null),
                      category |-> Get(req.input, "category", Null),
                      language |-> Get(req.input, "language", Null),
                      isFavorite |-> Get(req.input, "isFavorite", FALSE),
                      isPublic |-> Get(req.input, "isPublic", FALSE),
                      createdAt |-> req.now,
                      updatedAt |-> req.now]
       IN  IF ~ForeignKeyOk(RiddleCollections, riddle.collectionId)
           THEN /\ Finish(s, req, "INTERNAL_SERVER_ERROR", <<>>, Stmt("insert", "Riddles", 0))
                /\ UNCHANGED <<Riddles, uuid, inserted>>
           ELSE /\ Riddles' = Riddles \cup {riddle}
                /\ uuid' = uuid + 1
                /\ inserted' = [inserted EXCEPT !.riddles = @ + 1]
                /\ Finish(s, req, "OK", <<riddle>>, Stmt("insert", "Riddles", 1))
    /\ UNCHANGED <<RiddleCollections, clock, foreignKeys>>

\* updateRiddle, lines 253-263 (and line 285 when no lookup follows)
updateRiddleSelect(s, req) ==
    /\ Awaits(req, "updateRiddle", "select")
    /\ IF SelectOwned(Riddles, req.input.id, req.user) = {}
           THEN Finish(s, req, "NOT_FOUND", <<>>, Stmt("select", "Riddles", 0))
           ELSE Await(s, req, IF ChecksCollection(req.input) THEN "check" ELSE "update",
                      clock, Stmt("select", "Riddles", 1))
    /\ UNCHANGED <<RiddleCollections, Riddles, uuid, inserted, clock, foreignKeys>>

\* updateRiddle, lines 265-285
updateRiddleCheck(s, req) ==
    /\ Awaits(req, "updateRiddle", "check")
    /\ IF SelectOwned(RiddleCollections, req.input.collectionId, req.user) = {}
           THEN Finish(s, req, "FORBIDDEN", <<>>, Stmt("select", "RiddleCollections", 0))
           ELSE Await(s, req, "update", clock, Stmt("select", "RiddleCollections", 1))
    /\ UNCHANGED <<RiddleCollections, Riddles, uuid, inserted, clock, foreignKeys>>

\* updateRiddle, lines 284-311
updateRiddleUpdate(s, req) ==
    /\ Awaits(req, "updateRiddle", "update")
    /\ LET updateData == RiddleUpdateData(req.input, req.now)
           matched == SelectOwned(Riddles, req.input.id, req.user)
           updated == Update(Riddles, matched, updateData)
       IN  IF /\ matched # {}
              /\ "collectionId" \in DOMAIN updateData
              /\ ~ForeignKeyOk(RiddleCollections, updateData.collectionId)
           THEN /\ Finish(s, req, "INTERNAL_SERVER_ERROR", <<>>, Stmt("update", "Riddles", 0))
                /\ UNCHANGED Riddles
           ELSE /\ Riddles' = updated
                /\ Finish(s, req, "OK",
                          IF matched = {} THEN <<>>
                          ELSE <<CHOOSE r \in updated : r.id = req.input.id>>,
                          Stmt("update", "Riddles", Cardinality(matched)))
    /\ UNCHANGED <<RiddleCollections, uuid, inserted, clock, foreignKeys>>

\* the statement the handler of req awaits takes effect
Statement(s, req) ==
    \/ createRiddleCollectionClear(s, req)
    \/ createRiddleCollectionInsert(s, req)
    \/ updateRiddleCollectionSelect(s, req)
    \/ updateRiddleCollectionClear(s, req)
    \/ updateRiddleCollectionUpdate(s, req)
    \/ deleteRiddleCollectionSelect(s, req)
    \/ deleteRiddleCollectionDetach(s, req)
    \/ deleteRiddleCollectionDelete(s, req)
    \/ createRiddleCheck(s, req)
    \/ createRiddleInsert(s, req)
    \/ updateRiddleSelect(s, req)
    \/ updateRiddleCheck(s, req)
    \/ updateRiddleUpdate(s, req)

\* a signed-in caller calls a handler, which runs to the end of its first
\* statement.  The frame takes the lowest free slot.  `before` keeps the
\* tables as they were at the call of a deleteRiddleCollection.
Call(s, op, ctx, input) ==
    /\ requireUser(ctx)
    /\ s \notin DOMAIN inflight
    /\ \A t \in Slots : t < s => t \in DOMAIN inflight
    /\ Statement(s, Request(op, ctx, input, FirstStatement(op, input), clock,
                            IF op = "deleteRiddleCollection" THEN store ELSE Null))

\* a handler in flight resumes: its statement takes effect
Resume(s) == s \in Live /\ Statement(s, inflight[s])

(***************************************************************************)
(* Inputs the schemas accept, over small value sets.                       *)
(***************************************************************************)
Opt(f, S) == {Empty} \cup {f :> v : v \in S}

\* strings a caller may pass where an id is expected (z.string().min(1))
IdStrings == AllIds
\* strings a caller may pass as collectionId (z.string())
CollectionIdStrings == AllIds \cup {""}
Pages == 1..MaxPage
PageSizes == 1..MaxPageSize
IdInputs == {[id |-> i] : i \in IdStrings}
ListCollectionsInputs == {[page |-> p, pageSize |-> s] : p \in Pages, s \in PageSizes}

CreateCollectionInputs ==
    {[name |-> "Logic"] @@ d : d \in Opt("isDefault", BOOLEAN)}
UpdateCollectionInputs ==
    {[id |-> i] @@ u : i \in IdStrings,
                       u \in Opt("isDefault", BOOLEAN) \cup {[name |-> "Logic"]}}
CreateRiddleInputs ==
    {[question |-> "q", answer |-> "a"] @@ c :
        c \in Opt("collectionId", CollectionIdStrings)}
UpdateRiddleInputs ==
    {[id |-> i] @@ c :
        i \in IdStrings, c \in Opt("collectionId", CollectionIdStrings \cup {Null})}
ListRiddlesInputs ==
    {[page |-> 1, pageSize |-> s] @@ c :
        s \in PageSizes, c \in Opt("collectionId", CollectionIdStrings)}

\* wider riddle inputs, for the properties of riddle fields and filters
Details == [hint |-> "h", difficulty |-> "easy", language |-> "en", isPublic |-> TRUE]
CreateRiddleFieldInputs ==
    {[question |-> "q", answer |-> "a"] @@ d @@ k @@ f :
        d \in {Empty, Details},
        k \in Opt("category", {"", "math"}),
        f \in Opt("isFavorite", {TRUE})}
UpdateRiddleFieldInputs ==
    {[id |-> i] @@ u :
        i \in IdStrings,
        u \in {Empty, Details, [question |-> "q2", answer |-> "a2"] @@ Details,
               [collectionId |-> Null], [hint |-> "h", isFavorite |-> FALSE]}
              \cup Opt("category", {"", "math"}) \cup Opt("isFavorite", BOOLEAN)}
CreateRiddleListInputs ==
    {[question |-> "q", answer |-> "a"] @@ c @@ k @@ f :
        c \in Opt("collectionId", {randomUUID(1), ""}),
        k \in Opt("category", {"", "math"}),
        f \in Opt("isFavorite", {TRUE})}
ListRiddlesFieldInputs ==
    {[page |-> p, pageSize |-> s] @@ c @@ f @@ d @@ k :
        p \in Pages, s \in PageSizes,
        c \in Opt("collectionId", {randomUUID(1), ""}),
        f \in Opt("favoritesOnly", BOOLEAN),
        d \in Opt("difficulty", {"easy"}),
        k \in Opt("category", {"", "math"})}

\* inputs of the handlers that run statement by statement; every collectionId
\* is an id the generator hands out
StepCreateCollectionInputs ==
    {[name |-> "Logic"] @@ d : d \in Opt("isDefault", {TRUE})}
StepUpdateCollectionInputs ==
    {[id |-> i] @@ d : i \in IdStrings, d \in Opt("isDefault", {TRUE})}
StepCreateRiddleInputs ==
    {[question |-> "q", answer |-> "a"] @@ c : c \in Opt("collectionId", AllIds)}
StepUpdateRiddleInputs ==
    {[id |-> i] @@ c : i \in IdStrings, c \in Opt("collectionId", AllIds \cup {Null})}

(***************************************************************************)
(* The system: an empty store, then requests one at a time.                *)
(***************************************************************************)
Init ==
    /\ RiddleCollections = {}
    /\ Riddles = {}
    /\ uuid = 0
    /\ inserted = [collections |-> 0, riddles |-> 0]
    /\ clock = 0
    /\ foreignKeys \in BOOLEAN
    /\ last = Response("none", NoUser, "OK", <<>>, <<>>)
    /\ inflight = <<>>

\* the calls of one handler: every signed-in user with every input, and an
\* anonymous caller with one input (the handler rejects it before reading any)
Calls(inputs) ==
    (Users \X inputs) \cup {<<NoUser, CHOOSE input \in inputs : TRUE>>}

Next ==
    \/ \E call \in Calls(CreateCollectionInputs) :
          /\ inserted.collections < MaxCollections
          /\ createRiddleCollection(call[1], call[2])
    \/ \E call \in Calls(UpdateCollectionInputs) : updateRiddleCollection(call[1], call[2])
    \/ \E call \in Calls(IdInputs) : deleteRiddleCollection(call[1], call[2])
    \/ \E call \in Calls(CreateRiddleInputs) :
          /\ inserted.riddles < MaxRiddles
          /\ createRiddle(call[1], call[2])
    \/ \E call \in Calls(UpdateRiddleInputs) : updateRiddle(call[1], call[2])
    \/ \E call \in Calls(IdInputs) : deleteRiddle(call[1], call[2])
    \/ \E call \in Calls(ListCollectionsInputs) : listMyCollections(call[1], call[2])
    \/ \E call \in Calls(ListRiddlesInputs) : listMyRiddles(call[1], call[2])
    \/ Tick

Spec == Init /\ [][Next]_vars

\* creating and updating riddles over the wider inputs, by signed-in callers
NextFields ==
    \/ \E ctx \in Users, input \in CreateRiddleFieldInputs :
          inserted.riddles < MaxFieldRiddles /\ createRiddle(ctx, input)
    \/ \E ctx \in Users, input \in UpdateRiddleFieldInputs : updateRiddle(ctx, input)
    \/ Tick

SpecFields == Init /\ [][NextFields]_vars

\* creating and listing riddles over the wider inputs, by signed-in callers
NextList ==
    \/ \E ctx \in Users, input \in {[name |-> "Logic"]} :
          inserted.collections < MaxListCollections /\ createRiddleCollection(ctx, input)
    \/ \E ctx \in Users, input \in CreateRiddleListInputs :
          inserted.riddles < MaxFieldRiddles /\ createRiddle(ctx, input)
    \/ \E ctx \in Users, input \in ListRiddlesFieldInputs : listMyRiddles(ctx, input)
    \/ \E ctx \in Users, input \in ListCollectionsInputs : listMyCollections(ctx, input)

SpecList == Init /\ [][NextList]_vars

(***************************************************************************)
(* Requests statement by statement.                                        *)
(***************************************************************************)
\* the requests in flight that will insert a row with their handler op
Inserting(op) == Cardinality({s \in Live : inflight[s].op = op})

\* the calls of the handlers that write collections' isDefault
CallDefault(s, ctx) ==
    \/ \E input \in StepCreateCollectionInputs :
          /\ inserted.collections + Inserting("createRiddleCollection") < MaxCollections
          /\ Call(s, "createRiddleCollection", ctx, input)
    \/ \E input \in StepUpdateCollectionInputs :
          Call(s, "updateRiddleCollection", ctx, input)

\* the calls of the handlers that write riddles' collectionId, and of the
\* handler that creates what it names
CallReference(s, ctx) ==
    \/ \E input \in {[name |-> "Logic"]} :
          /\ inserted.collections + Inserting("createRiddleCollection") < MaxCollections
          /\ Call(s, "createRiddleCollection", ctx, input)
    \/ \E input \in IdInputs : Call(s, "deleteRiddleCollection", ctx, input)
    \/ \E input \in StepCreateRiddleInputs :
          /\ inserted.riddles + Inserting("createRiddle") < MaxRiddles
          /\ Call(s, "createRiddle", ctx, input)
    \/ \E input \in StepUpdateRiddleInputs : Call(s, "updateRiddle", ctx, input)

\* one request at a time, each statement a step; a deleteRiddleCollection may
\* stop between its writes; the clock advances
NextSteps ==
    \/ \E s \in Slots, ctx \in Users : Live = {} /\ CallReference(s, ctx)
    \/ \E s \in Slots : Resume(s)
    \/ \E s \in Slots : Stop(s)
    \/ Tick

SpecSteps == Init /\ [][NextSteps]_vars

\* the user whose requests interleave
Caller == CHOOSE u \in Users : TRUE

\* up to MaxRequests requests of one user in flight, their statements
\* interleaved: the handlers that write isDefault
NextConcDefault ==
    \/ \E s \in Slots : CallDefault(s, Caller)
    \/ \E s \in Slots : Resume(s)

SpecConcDefault == Init /\ [][NextConcDefault]_vars

\* the same, for the handlers that write collectionId
NextConcReference ==
    \/ \E s \in Slots : CallReference(s, Caller)
    \/ \E s \in Slots : Resume(s)

SpecConcReference == Init /\ [][NextConcReference]_vars

TypeOK ==
    /\ clock \in 0..MaxTime
    /\ \A c \in RiddleCollections : c.userId \in Users /\ c.isDefault \in BOOLEAN
    /\ \A r \in Riddles : r.userId \in Users

(***************************************************************************)
(* Properties.                                                             *)
(***************************************************************************)
Ok == "OK"
Defaults(colls, u) == {c \in colls : c.userId = u /\ c.isDefault}
Ids(rows) == {r.id : r \in rows}
Owned(rows, id, u) == \E r \in rows : r.id = id /\ r.userId = u

\* C1: in every state reached by requests that run one at a time, every user
\* owns at most one collection with isDefault = true.
C1_SingleDefault ==
    \A u \in Users : Cardinality(Defaults(RiddleCollections, u)) <= 1

\* a second default collection was created for a user whose earlier default
\* collection was cleared by that request
C1_Witness ==
    /\ last.op = "createRiddleCollection" /\ last.code = Ok
    /\ last.stmts[1] = Stmt("update", "RiddleCollections", 1)
    /\ last.data[1].isDefault
    /\ \E c \in RiddleCollections :
          /\ c.userId = last.user /\ c.id # last.data[1].id
          /\ ~c.isDefault /\ c.createdAt < c.updatedAt

C3_DeleteDetaches ==
    [][(last'.op = "deleteRiddleCollection" /\ last'.code = Ok) =>
       \A ctx \in Users, input \in IdInputs :
          deleteRiddleCollection(ctx, input) =>
              /\ input.id \notin Ids(RiddleCollections')
              /\ \A r \in Riddles' : r.collectionId # input.id
              /\ \A r \in Riddles : r.collectionId = input.id =>
                    \E q \in Riddles' : q.id = r.id /\ q.collectionId = Null
              /\ Ids(Riddles') = Ids(Riddles)]_vars

\* a collection was deleted and the riddle that referenced it is still there
C3_Witness ==
    /\ last.op = "deleteRiddleCollection" /\ last.code = Ok
    /\ last.stmts[2] = Stmt("update", "Riddles", 1)
    /\ \E r \in Riddles : r.userId = last.user /\ r.collectionId = Null
    /\ RiddleCollections # {}

\* C4: after a successful createRiddleCollection or updateRiddleCollection
\* with isDefault = true, the created (targeted) collection is the caller's
\* one and only default collection.
C4_TargetIsTheDefault ==
    [][(last'.code = Ok /\ last'.user \in Users) =>
       /\ (last'.op = "createRiddleCollection") =>
             \A input \in CreateCollectionInputs :
                (TruthyBool(input, "isDefault")
                 /\ createRiddleCollection(last'.user, input)) =>
                    /\ last'.data[1].id \notin Ids(RiddleCollections)
                    /\ Defaults(RiddleCollections', last'.user) = {last'.data[1]}
       /\ (last'.op = "updateRiddleCollection") =>
             \A input \in UpdateCollectionInputs :
                (TruthyBool(input, "isDefault")
                 /\ updateRiddleCollection(last'.user, input)) =>
                    Ids(Defaults(RiddleCollections', last'.user)) = {input.id}]_vars

\* an update with isDefault = true made its target the default among two
\* collections of the caller
C4_Witness ==
    /\ last.op = "updateRiddleCollection" /\ last.code = Ok
    /\ last.stmts[2] = Stmt("update", "RiddleCollections", 2)
    /\ last.data[1].isDefault
    /\ \E c \in RiddleCollections :
          c.userId = last.user /\ c.id # last.data[1].id /\ ~c.isDefault

\* C5: createRiddle with a collectionId, and updateRiddle of an own riddle
\* with a non-null collectionId, fail with FORBIDDEN and change nothing
\* whenever the caller owns no collection with that id.
C5_ForbiddenForeignCollection ==
    [][(last'.op \in {"createRiddle", "updateRiddle"}) =>
       /\ \A ctx \in Users, input \in CreateRiddleInputs :
             (/\ createRiddle(ctx, input)
              /\ "collectionId" \in DOMAIN input
              /\ ~Owned(RiddleCollections, input.collectionId, ctx)) =>
                 (last'.code = "FORBIDDEN" /\ UNCHANGED store)
       /\ \A ctx \in Users, input \in UpdateRiddleInputs :
             (/\ updateRiddle(ctx, input)
              /\ Owned(Riddles, input.id, ctx)
              /\ "collectionId" \in DOMAIN input
              /\ input.collectionId # Null
              /\ ~Owned(RiddleCollections, input.collectionId, ctx)) =>
                 (last'.code = "FORBIDDEN" /\ UNCHANGED store)]_vars

\* the step answers NOT_FOUND and leaves both tables as they were
RefusedNotFound == last'.code = "NOT_FOUND" /\ UNCHANGED store

\* C6: update and delete of a collection or riddle whose id names no row of
\* the caller fail with NOT_FOUND and leave both tables unchanged.
C6_NotFoundChangesNothing ==
    [][(last'.user \in Users /\ ~RefusedNotFound) =>
       /\ (last'.op = "updateRiddleCollection") =>
             \A input \in UpdateCollectionInputs :
                (~Owned(RiddleCollections, input.id, last'.user)
                 /\ updateRiddleCollection(last'.user, input)) => RefusedNotFound
       /\ (last'.op = "deleteRiddleCollection") =>
             \A input \in IdInputs :
                (~Owned(RiddleCollections, input.id, last'.user)
                 /\ deleteRiddleCollection(last'.user, input)) => RefusedNotFound
       /\ (last'.op = "updateRiddle") =>
             \A input \in UpdateRiddleInputs :
                (~Owned(Riddles, input.id, last'.user)
                 /\ updateRiddle(last'.user, input)) => RefusedNotFound
       /\ (last'.op = "deleteRiddle") =>
             \A input \in IdInputs :
                (~Owned(Riddles, input.id, last'.user)
                 /\ deleteRiddle(last'.user, input)) => RefusedNotFound]_vars

\* a collection update was answered NOT_FOUND while the only collections,
\* one of them the default, belong to another user
C6_Witness ==
    /\ last.op = "updateRiddleCollection" /\ last.code = "NOT_FOUND"
    /\ last.user \in Users
    /\ RiddleCollections # {}
    /\ \A c \in RiddleCollections : c.userId # last.user
    /\ \E c \in RiddleCollections : c.isDefault

\* the step answers UNAUTHORIZED, sends no statement, returns no row
Rejected ==
    /\ last'.code = "UNAUTHORIZED"
    /\ last'.stmts = <<>>
    /\ last'.data = <<>>
    /\ UNCHANGED <<RiddleCollections, Riddles, uuid, inserted>>

\* C7: each of the eight actions, called without a signed-in user, fails with
\* UNAUTHORIZED before any statement is sent to the store: nothing is read,
\* nothing is written, no row is returned.
C7_Unauthorized ==
    [][(last'.user = NoUser) =>
       \/ Rejected
       \/ /\ \A input \in CreateCollectionInputs :
                createRiddleCollection(NoUser, input) => Rejected
          /\ \A input \in UpdateCollectionInputs :
                updateRiddleCollection(NoUser, input) => Rejected
          /\ \A input \in IdInputs : deleteRiddleCollection(NoUser, input) => Rejected
          /\ \A input \in CreateRiddleInputs : createRiddle(NoUser, input) => Rejected
          /\ \A input \in UpdateRiddleInputs : updateRiddle(NoUser, input) => Rejected
          /\ \A input \in IdInputs : deleteRiddle(NoUser, input) => Rejected
          /\ \A input \in ListCollectionsInputs :
                listMyCollections(NoUser, input) => Rejected
          /\ \A input \in ListRiddlesInputs : listMyRiddles(NoUser, input) => Rejected]_vars

\* an anonymous listing was rejected although the store holds rows
C7_Witness ==
    /\ last.op = "listMyRiddles" /\ last.user = NoUser
    /\ last.code = "UNAUTHORIZED"
    /\ Riddles # {} /\ RiddleCollections # {}

\* C8: a successful updateRiddle sets, on its target, the supplied fields and
\* updatedAt; the omitted fields, id, userId and createdAt keep their values;
\* no other riddle and no collection changes.
C8_PartialUpdate ==
    [][(last'.op = "updateRiddle" /\ last'.code = Ok /\ last'.user \in Users) =>
       \A ctx \in {last'.user}, input \in UpdateRiddleFieldInputs :
          (last'.data[1].id = input.id /\ updateRiddle(ctx, input)) =>
             LET old == CHOOSE r \in Riddles : r.id = input.id
                 new == CHOOSE r \in Riddles' : r.id = input.id
             IN  /\ Ids(Riddles') = Ids(Riddles)
                 /\ \A f \in RiddleFields :
                       new[f] = IF f \in DOMAIN input THEN input[f] ELSE old[f]
                 /\ new.updatedAt = clock
                 /\ new.id = old.id
                 /\ new.userId = old.userId
                 /\ new.createdAt = old.createdAt
                 /\ Riddles' \ {new} = Riddles \ {old}
                 /\ RiddleCollections' = RiddleCollections]_vars

\* an update that supplied question and answer but neither category nor
\* isFavorite, at a later time than the creation, with a second riddle stored
C8_Witness ==
    /\ last.op = "updateRiddle" /\ last.code = Ok
    /\ last.data[1].question = "q2"
    /\ last.data[1].category = "math"
    /\ last.data[1].isFavorite
    /\ last.data[1].createdAt < last.data[1].updatedAt
    /\ Cardinality(Riddles) = 2

\* r is a riddle of ctx that passes every filter the input supplies
Satisfies(r, ctx, input) ==
    /\ r.userId = ctx
    /\ "collectionId" \in DOMAIN input => r.collectionId = input.collectionId
    /\ ("favoritesOnly" \in DOMAIN input /\ input.favoritesOnly) => r.isFavorite
    /\ "difficulty" \in DOMAIN input => r.difficulty = input.difficulty
    /\ "category" \in DOMAIN input => r.category = input.category
\* the length of page input.page of n rows
PageLen(n, input) ==
    LET rest == n - (input.page - 1) * input.pageSize
    IN  IF rest < 0 THEN 0 ELSE Min(rest, input.pageSize)

\* C9: listMyRiddles returns only riddles of the caller that satisfy every
\* supplied filter, a filter that is not supplied excludes no riddle, and
\* listMyCollections returns only collections of the caller.
C9_ListScopedAndFiltered ==
    [][(last'.op \in {"listMyRiddles", "listMyCollections"} /\ last'.code = Ok) =>
       /\ \A ctx \in Users, input \in ListRiddlesFieldInputs :
             listMyRiddles(ctx, input) =>
                /\ \A i \in DOMAIN last'.data : Satisfies(last'.data[i], ctx, input)
                /\ Len(last'.data) =
                      PageLen(Cardinality({r \in Riddles : Satisfies(r, ctx, input)}), input)
       /\ \A ctx \in Users, input \in ListCollectionsInputs :
             listMyCollections(ctx, input) =>
                \A i \in DOMAIN last'.data : last'.data[i].userId = ctx]_vars

\* C10: as long as a row exists its id names that row alone and its userId is
\* the one it was created with.
C10_OwnershipNeverTransfers ==
    [][/\ \A r \in Riddles, q \in Riddles' : q.id = r.id => q.userId = r.userId
       /\ \A c \in RiddleCollections, d \in RiddleCollections' :
             d.id = c.id => d.userId = c.userId
       /\ \A r, q \in Riddles' : q.id = r.id => q = r
       /\ \A c, d \in RiddleCollections' : d.id = c.id => d = c]_vars

\* an owner updated a riddle while the other user owns a collection that was
\* updated too
C10_Witness ==
    /\ last.op = "updateRiddle" /\ last.code = Ok
    /\ last.data[1].createdAt < last.data[1].updatedAt
    /\ \E c \in RiddleCollections :
          c.userId # last.user /\ c.createdAt < c.updatedAt

\* the pages a listing may return for page `page` of the rows S
PagesOf(S, page, pageSize) == {LimitOffset(o, page, pageSize) : o \in Orders(S)}
Range(s) == {s[i] : i \in DOMAIN s}
\* over the rows S the listing can return but this page, and no row of it is
\* on another page
StablePage(S, input, data) ==
    /\ PagesOf(S, input.page, input.pageSize) = {data}
    /\ \A p \in Pages \ {input.page} :
          \A other \in PagesOf(S, p, input.pageSize) : Range(other) \cap Range(data) = {}

\* C11: over an unchanged store and with fixed filters and pageSize, a call of
\* listMyRiddles or listMyCollections can return one page only (repeating the
\* call returns the same page), and the pages 1, 2, ... share no row.
C11_StablePagination ==
    [][(last'.op \in {"listMyRiddles", "listMyCollections"} /\ last'.code = Ok) =>
       /\ \A ctx \in Users, input \in ListRiddlesFieldInputs :
             listMyRiddles(ctx, input) =>
                StablePage({r \in Riddles : RiddleFilter(r, ctx, input)},
                           input, last'.data)
       /\ \A ctx \in Users, input \in ListCollectionsInputs :
             listMyCollections(ctx, input) =>
                StablePage({c \in RiddleCollections : c.userId = ctx},
                           input, last'.data)]_vars

\* no handler is running
Quiescent == Live = {}

\* C12: when requests of one user interleave statement by statement, in every
\* state in which no request is in flight the user has at most one collection
\* with isDefault = true.
C12_QuiescentSingleDefault ==
    Quiescent => \A u \in Users : Cardinality(Defaults(RiddleCollections, u)) <= 1

Kinds(stmts) == [i \in DOMAIN stmts |-> <<stmts[i].stmt, stmts[i].table>>]

\* C14: while deleteRiddleCollection runs without other requests in between,
\* the detach of the caller's riddles is sent before the delete of the row,
\* and at every statement boundary, the one between the two writes included,
\* no riddle references a collection that does not exist.
C14_DetachBeforeDelete ==
    /\ \A r \in Riddles :
          r.collectionId = Null \/ r.collectionId \in Ids(RiddleCollections)
    /\ \A s \in DOMAIN inflight :
          inflight[s].op = "deleteRiddleCollection" =>
             /\ inflight[s].pc = "detach" =>
                   Kinds(inflight[s].stmts) = <<<<"select", "RiddleCollections">>>>
             /\ inflight[s].pc \in {"delete", "stopped"} =>
                   /\ Kinds(inflight[s].stmts) = <<<<"select", "RiddleCollections">>,
                                                   <<"update", "Riddles">>>>
                   /\ inflight[s].input.id \in Ids(RiddleCollections)
    /\ (last.op = "deleteRiddleCollection" /\ last.code = Ok) =>
          Kinds(last.stmts) = <<<<"select", "RiddleCollections">>,
                                <<"update", "Riddles">>,
                                <<"delete", "RiddleCollections">>>>

\* a deleteRiddleCollection between its two writes: the riddle is detached,
\* the collection is still there
C14_Witness ==
    \E s \in Live :
        /\ inflight[s].op = "deleteRiddleCollection"
        /\ inflight[s].pc = "delete"
        /\ inflight[s].stmts[2] = Stmt("update", "Riddles", 1)
        /\ inflight[s].input.id \in Ids(RiddleCollections)
        /\ \E r \in Riddles : r.userId = inflight[s].user /\ r.collectionId = Null

\* rows without their updatedAt
Forget(rows) == {[k \in DOMAIN r \ {"updatedAt"} |-> r[k]] : r \in rows}
\* the tables after one deleteRiddleCollection(id) of uid that ran from the
\* tables `before` to its end
Uninterrupted(before, id, uid, now) ==
    LET detached == Update(before[2],
                           {r \in before[2] : DetachScope(r, id, uid)},
                           DetachData(now))
        refused == foreignKeys /\ \E r \in detached : r.collectionId = id
    IN  <<IF refused THEN before[1] ELSE DeleteOwned(before[1], id, uid), detached>>
\* request req repeats the stopped request dead
Repeats(req, dead) ==
    req.op = dead.op /\ req.user = dead.user /\ req.input = dead.input

\* C15: after a deleteRiddleCollection(C) that stopped between its detach and
\* its delete, the next call deleteRiddleCollection(C) finds C, its detach
\* changes no riddle's collectionId, and it returns success with both tables,
\* updatedAt aside, as one uninterrupted deleteRiddleCollection(C) leaves them.
C15_RerunAfterStop ==
    [][\A t \in DOMAIN inflight \ Live :
          LET dead == inflight[t]
          IN  \A s \in Slots \ {t} :
                 \* the call: the select finds the row, the handler goes on
                 /\ (Live = {} /\ Call(s, dead.op, dead.user, dead.input)) =>
                       (s \in DOMAIN inflight' /\ inflight'[s].pc = "detach")
                 /\ (s \in Live /\ Repeats(inflight[s], dead) /\ Resume(s)) =>
                       \* the detach
                       /\ inflight[s].pc = "detach" =>
                             /\ \A r \in Riddles : \E q \in Riddles' :
                                    q.id = r.id /\ q.collectionId = r.collectionId
                             /\ s \in DOMAIN inflight' /\ inflight'[s].pc = "delete"
                       \* the delete and the response
                       /\ inflight[s].pc = "delete" =>
                             LET whole == Uninterrupted(dead.before, dead.input.id,
                                                        dead.user, dead.now)
                             IN  /\ last'.op = "deleteRiddleCollection"
                                 /\ last'.code = Ok
                                 /\ Forget(RiddleCollections') = Forget(whole[1])
                                 /\ Forget(Riddles') = Forget(whole[2])]_vars

\* a deleteRiddleCollection stopped after it had detached a riddle; its
\* repetition, at a later time, found the row, detached nothing and awaits
\* its delete
C15_Witness ==
    \E t \in DOMAIN inflight \ Live, s \in Live :
        /\ Repeats(inflight[s], inflight[t])
        /\ inflight[t].stmts[2] = Stmt("update", "Riddles", 1)
        /\ inflight[s].pc = "delete"
        /\ inflight[s].stmts[2] = Stmt("update", "Riddles", 0)
        /\ inflight[t].now < inflight[s].now
        /\ \E r \in Riddles : r.userId = inflight[s].user /\ r.collectionId = Null

\* C16: updateRiddle on a riddle of the caller succeeds without a collection
\* lookup and leaves collectionId = null when collectionId = null is supplied,
\* and leaves collectionId as it was when collectionId is omitted.
C16_NullDetachesOmittedKeeps ==
    [][(last'.op = "updateRiddle" /\ last'.user \in Users) =>
       \A input \in UpdateRiddleInputs :
          (/\ Owned(Riddles, input.id, last'.user)
           /\ Get(input, "collectionId", Null) = Null
           /\ updateRiddle(last'.user, input)) =>
              LET old == CHOOSE r \in Riddles : r.id = input.id
                  new == CHOOSE r \in Riddles' : r.id = input.id
              IN  /\ last'.code = Ok
                  /\ \A i \in DOMAIN last'.stmts :
                        last'.stmts[i].table # "RiddleCollections"
                  /\ Ids(Riddles') = Ids(Riddles)
                  /\ new.collectionId = IF "collectionId" \in DOMAIN input
                                        THEN Null ELSE old.collectionId]_vars

\* an updateRiddle that sent no collection lookup left its riddle, updated
\* later than created, without collection while its owner has a collection
C16_Witness ==
    /\ last.op = "updateRiddle" /\ last.code = Ok
    /\ Kinds(last.stmts) = <<<<"select", "Riddles">>, <<"update", "Riddles">>>>
    /\ last.data[1].collectionId = Null
    /\ last.data[1].createdAt < last.data[1].updatedAt
    /\ \E c \in RiddleCollections : c.userId = last.user

\* the rows of user u
RowsOf(rows, u) == {r \in rows : r.userId = u}

\* C17: whatever action a caller calls, with whatever input, and whether it
\* succeeds or fails, the collections and riddles of every other user stay
\* as they are, in every field and in existence, and the data returned to
\* the caller holds no row of another user.
C17_UserIsolation ==
    [][\A b \in Users \ {last'.user} :
          /\ RowsOf(RiddleCollections', b) = RowsOf(RiddleCollections, b)
          /\ RowsOf(Riddles', b) = RowsOf(Riddles, b)
          /\ \A i \in DOMAIN last'.data : last'.data[i].userId # b]_vars

\* a user made one of their collections the default, which cleared their own
\* rows, while another user's collection is the default of that user
C17_Witness ==
    /\ last.op = "updateRiddleCollection" /\ last.code = Ok
    /\ last.stmts[2] = Stmt("update", "RiddleCollections", 1)
    /\ last.data[1].isDefault
    /\ \E c \in RiddleCollections : c.userId # last.user /\ c.isDefault

====
